---- MODULE Spec2Model ----
(***************************************************************************)
(* A model of SubprocessCLITransport                                       *)
(* (src/claude_code_sdk/_internal/transport/subprocess_cli.py).            *)
(*                                                                         *)
(* Text is a sequence of one-character strings.  A decoded JSON value is a *)
(* tagged tuple: <<"num", n>>, <<"str", chars>>, <<"arr", values>>,        *)
(* <<"obj", pairs>> with pairs a sequence of <<key, value>> in insertion   *)
(* order and unique keys (a Python dict).                                  *)
(***************************************************************************)
EXTENDS Integers, Sequences, FiniteSets, TLC

\* ------------------------------------------------------------------ bounds

\* Longest string literal (key or value) of a generated JSON object.
MaxStrLen == 2
\* Longest line of arbitrary characters fed to the extractor.
MaxJunkLen == 4
\* Most chunks the subprocess writes to stdout, and to stderr, in one run.
MaxLines == 2
MaxErrLines == 2
\* Most signals sent to the subprocess by all disconnect() calls of a run.
MaxSignals == 3
\* Most tasks that call connect() on one transport at the same time.
MaxCallers == 2
\* Longest list of tool names in an option.
MaxTools == 2

\* -------------------------------------------------------------- characters

LB == "{"
RB == "}"
LK == "["
RK == "]"
QT == "\""
BS == "\\"
CL == ":"
CM == ","
SP == " "
NL == "\n"

\* The whitespace str.strip() removes and json skips, as far as the model's
\* alphabet has it.
IsSpace(c) == c \in {SP, NL}

\* ------------------------------------------------------------ str methods

RECURSIVE LStrip(_)
LStrip(s) ==
    IF s = <<>> THEN s
    ELSE IF IsSpace(Head(s)) THEN LStrip(Tail(s)) ELSE s

RECURSIVE RStrip(_)
RStrip(s) ==
    IF s = <<>> THEN s
    ELSE IF IsSpace(s[Len(s)]) THEN RStrip(SubSeq(s, 1, Len(s) - 1)) ELSE s

\* str.strip()
Strip(s) == RStrip(LStrip(s))

\* str.startswith(prefix)
StartsWith(s, prefix) ==
    /\ Len(s) >= Len(prefix)
    /\ SubSeq(s, 1, Len(prefix)) = prefix

\* needle in haystack
Contains(haystack, needle) ==
    \E i \in 1..(Len(haystack) - Len(needle) + 1) :
        SubSeq(haystack, i, i + Len(needle) - 1) = needle

\* No case folding: the search of line 254 without .lower().
LowerCharIdentity(c) == c

LowerChar(c) ==
    CASE c = "E" -> "e"
      [] c = "R" -> "r"
      [] c = "O" -> "o"
      [] c = "W" -> "w"
      [] OTHER -> c

\* str.lower()
Lower(s) == [i \in 1..Len(s) |-> LowerChar(s[i])]

\* "\n".join(lines)
RECURSIVE JoinLines(_)
JoinLines(lines) ==
    IF lines = <<>> THEN <<>>
    ELSE IF Len(lines) = 1 THEN lines[1]
    ELSE lines[1] \o <<NL>> \o JoinLines(Tail(lines))

\* ---------------------------------------------------------- json.loads

JNum(n) == <<"num", n>>
JStr(s) == <<"str", s>>
JArr(items) == <<"arr", items>>
JObj(pairs) == <<"obj", pairs>>

\* A parse step's result: the value and the 1-based position after it.
POk(v, p) == [ok |-> TRUE, val |-> v, pos |-> p]
PFail == [ok |-> FALSE, val |-> <<"err">>, pos |-> 0]

\* json.decoder.WHITESPACE.match(s, i).end()
RECURSIVE SkipWs(_, _)
SkipWs(s, i) ==
    IF i <= Len(s) /\ IsSpace(s[i]) THEN SkipWs(s, i + 1) ELSE i

\* py_scanstring, strict: s[j..] after the opening quote.  A backslash must
\* be followed by a character JSON allows there; a control character (the
\* newline) may not stand in a string.
RECURSIVE ScanString(_, _, _)
ScanString(s, j, acc) ==
    IF j > Len(s) THEN PFail
    ELSE IF s[j] = QT THEN POk(acc, j + 1)
    ELSE IF s[j] = BS THEN
        IF j + 1 <= Len(s) /\ s[j + 1] \in {QT, BS}
        THEN ScanString(s, j + 2, Append(acc, s[j + 1]))
        ELSE PFail
    ELSE IF s[j] = NL THEN PFail
    ELSE ScanString(s, j + 1, Append(acc, s[j]))

\* NUMBER_RE, for the one digit of the alphabet.
RECURSIVE ScanNumber(_, _, _)
ScanNumber(s, j, acc) ==
    IF j <= Len(s) /\ s[j] = "1"
    THEN ScanNumber(s, j + 1, 10 * acc + 1)
    ELSE POk(JNum(acc), j)

\* dict[key] = value: a known key keeps its place and takes the new value.
DictSet(pairs, k, v) ==
    IF \E i \in 1..Len(pairs) : pairs[i][1] = k
    THEN [i \in 1..Len(pairs) |->
            IF pairs[i][1] = k THEN <<k, v>> ELSE pairs[i]]
    ELSE Append(pairs, <<k, v>>)

RECURSIVE ScanOnce(_, _)
RECURSIVE ObjectMembers(_, _, _)
RECURSIVE ArrayItems(_, _, _)

\* JSONObject's loop; s[i] is the opening quote of the next key.
ObjectMembers(s, i, pairs) ==
    LET key == ScanString(s, i + 1, <<>>) IN
    IF ~key.ok THEN PFail
    ELSE
      LET c == SkipWs(s, key.pos) IN
      IF ~(c <= Len(s) /\ s[c] = CL) THEN PFail
      ELSE
        LET v == ScanOnce(s, SkipWs(s, c + 1)) IN
        IF ~v.ok THEN PFail
        ELSE
          LET e == SkipWs(s, v.pos)
              more == DictSet(pairs, key.val, v.val)
          IN
          IF e > Len(s) THEN PFail
          ELSE IF s[e] = RB THEN POk(JObj(more), e + 1)
          ELSE IF s[e] = CM THEN
            LET n == SkipWs(s, e + 1) IN
            IF n <= Len(s) /\ s[n] = QT THEN ObjectMembers(s, n, more)
            ELSE PFail
          ELSE PFail

\* JSONArray's loop; the next value starts at i.
ArrayItems(s, i, items) ==
    LET v == ScanOnce(s, i) IN
    IF ~v.ok THEN PFail
    ELSE
      LET e == SkipWs(s, v.pos)
          more == Append(items, v.val)
      IN
      IF e > Len(s) THEN PFail
      ELSE IF s[e] = RK THEN POk(JArr(more), e + 1)
      ELSE IF s[e] = CM THEN ArrayItems(s, SkipWs(s, e + 1), more)
      ELSE PFail

\* scanner.scan_once(s, i): one JSON value starting exactly at i.
ScanOnce(s, i) ==
    IF i > Len(s) THEN PFail
    ELSE IF s[i] = QT THEN
        LET r == ScanString(s, i + 1, <<>>) IN
        IF r.ok THEN POk(JStr(r.val), r.pos) ELSE PFail
    ELSE IF s[i] = LB THEN
        LET n == SkipWs(s, i + 1) IN
        IF n > Len(s) THEN PFail
        ELSE IF s[n] = RB THEN POk(JObj(<<>>), n + 1)
        ELSE IF s[n] = QT THEN ObjectMembers(s, n, <<>>)
        ELSE PFail
    ELSE IF s[i] = LK THEN
        LET n == SkipWs(s, i + 1) IN
        IF n > Len(s) THEN PFail
        ELSE IF s[n] = RK THEN POk(JArr(<<>>), n + 1)
        ELSE ArrayItems(s, n, <<>>)
    ELSE IF s[i] = "1" THEN ScanNumber(s, i, 0)
    ELSE PFail

\* json.loads(s): leading whitespace, one value, trailing whitespace, and
\* nothing else ("Extra data").  ok = FALSE is json.JSONDecodeError.
JsonLoads(s) ==
    LET r == ScanOnce(s, SkipWs(s, 1)) IN
    IF r.ok /\ SkipWs(s, r.pos) = Len(s) + 1 THEN r ELSE PFail

\* ------------------------------------------- the brace/string/escape scan

\* The scan's variables as set before the loop (lines 197-202); positions
\* are 1-based here, so start_pos = 1 is Python's 0.
ScanInit ==
    [json_objects |-> <<>>, brace_count |-> 0, in_string |-> FALSE,
     escape_next |-> FALSE, start_pos |-> 1]

\* ScanChar with every closing brace outside a string ending a span,
\* whatever the depth it leaves.
ScanCharAnyClose(st, line_str, i) ==
    LET char == line_str[i] IN
    IF st.escape_next THEN [st EXCEPT !.escape_next = FALSE]
    ELSE IF char = BS /\ st.in_string THEN [st EXCEPT !.escape_next = TRUE]
    ELSE IF char = QT /\ ~st.escape_next
        THEN [st EXCEPT !.in_string = ~st.in_string]
    ELSE IF st.in_string THEN st
    ELSE IF char = LB THEN
        [st EXCEPT !.start_pos = IF st.brace_count = 0 THEN i ELSE @,
                   !.brace_count = @ + 1]
    ELSE IF char = RB THEN
        [st EXCEPT !.brace_count = @ - 1,
                   !.json_objects = Append(@, SubSeq(line_str, st.start_pos, i))]
    ELSE st

\* ScanChar without lines 209-211: a backslash in a string escapes nothing.
ScanCharNoEscape(st, line_str, i) ==
    LET char == line_str[i] IN
    IF char = QT THEN [st EXCEPT !.in_string = ~st.in_string]
    ELSE IF st.in_string THEN st
    ELSE IF char = LB THEN
        [st EXCEPT !.start_pos = IF st.brace_count = 0 THEN i ELSE @,
                   !.brace_count = @ + 1]
    ELSE IF char = RB THEN
        [st EXCEPT !.brace_count = @ - 1,
                   !.json_objects =
                       IF st.brace_count - 1 = 0
                       THEN Append(@, SubSeq(line_str, st.start_pos, i))
                       ELSE @]
    ELSE st

\* ScanChar without the test of line 219: every "{" restarts the span.
ScanCharRestart(st, line_str, i) ==
    LET char == line_str[i] IN
    IF st.escape_next THEN [st EXCEPT !.escape_next = FALSE]
    ELSE IF char = BS /\ st.in_string THEN [st EXCEPT !.escape_next = TRUE]
    ELSE IF char = QT THEN [st EXCEPT !.in_string = ~st.in_string]
    ELSE IF st.in_string THEN st
    ELSE IF char = LB THEN
        [st EXCEPT !.start_pos = i, !.brace_count = @ + 1]
    ELSE IF char = RB THEN
        [st EXCEPT !.brace_count = @ - 1,
                   !.json_objects =
                       IF st.brace_count - 1 = 0
                       THEN Append(@, SubSeq(line_str, st.start_pos, i))
                       ELSE @]
    ELSE st

\* One iteration of `for i, char in enumerate(line_str)` (lines 204-226).
ScanChar(st, line_str, i) ==
    LET char == line_str[i] IN
    IF st.escape_next THEN [st EXCEPT !.escape_next = FALSE]
    ELSE IF char = BS /\ st.in_string THEN [st EXCEPT !.escape_next = TRUE]
    ELSE IF char = QT /\ ~st.escape_next
        THEN [st EXCEPT !.in_string = ~st.in_string]
    ELSE IF st.in_string THEN st
    ELSE IF char = LB THEN
        [st EXCEPT !.start_pos = IF st.brace_count = 0 THEN i ELSE @,
                   !.brace_count = @ + 1]
    ELSE IF char = RB THEN
        [st EXCEPT !.brace_count = @ - 1,
                   !.json_objects =
                       IF st.brace_count - 1 = 0
                       THEN Append(@, SubSeq(line_str, st.start_pos, i))
                       ELSE @]
    ELSE st

RECURSIVE ScanFrom(_, _, _)
ScanFrom(st, line_str, i) ==
    IF i > Len(line_str) THEN st
    ELSE ScanFrom(ScanChar(st, line_str, i), line_str, i + 1)

\* The scan of a whole trimmed line: its final variables.
ScanLine(line_str) == ScanFrom(ScanInit, line_str, 1)

\* json_objects as the parse loop gets it (lines 197-230): the balanced
\* spans, or the whole line when the scan found none.
JsonObjects(line_str) ==
    LET found == ScanLine(line_str).json_objects IN
    IF found = <<>> THEN <<line_str>> ELSE found

\* ParseLoop stopping at its first message: what follows on the line is
\* dropped.
ParseLoopFirstOnly(slices) ==
    LET data == JsonLoads(Head(slices)) IN
    IF slices = <<>> \/ ~data.ok
    THEN [kind |-> "exhausted", val |-> <<"err">>, text |-> <<>>,
          rest |-> <<>>]
    ELSE [kind |-> "yield", val |-> data.val, text |-> Head(slices),
          rest |-> <<>>]

\* ParseLoop without the raise of lines 244-245: a slice that does not
\* parse is passed over.
RECURSIVE ParseLoopSkipBad(_)
ParseLoopSkipBad(slices) ==
    IF slices = <<>>
    THEN [kind |-> "exhausted", val |-> <<"err">>, text |-> <<>>,
          rest |-> <<>>]
    ELSE
      LET data == JsonLoads(Head(slices)) IN
      IF data.ok
        THEN [kind |-> "yield", val |-> data.val, text |-> Head(slices),
              rest |-> Tail(slices)]
      ELSE ParseLoopSkipBad(Tail(slices))

\* ParseLoop without the test of line 244: every slice that does not parse
\* is raised.
ParseLoopRaiseAll(slices) ==
    LET data == JsonLoads(Head(slices)) IN
    IF slices = <<>>
    THEN [kind |-> "exhausted", val |-> <<"err">>, text |-> <<>>,
          rest |-> <<>>]
    ELSE IF data.ok
    THEN [kind |-> "yield", val |-> data.val, text |-> Head(slices),
          rest |-> Tail(slices)]
    ELSE [kind |-> "raise", val |-> <<"err">>, text |-> Head(slices),
          rest |-> <<>>]

\* What `for json_str in json_objects` (lines 232-246) does from the head of
\* `slices` up to its next suspension or exit: it yields the first slice
\* that parses, raises on a slice that does not parse and starts with "{"
\* or "[", and passes over any other slice.
RECURSIVE ParseLoop(_)
ParseLoop(slices) ==
    IF slices = <<>>
    THEN [kind |-> "exhausted", val |-> <<"err">>, text |-> <<>>,
          rest |-> <<>>]
    ELSE
      LET json_str == Head(slices)
          data == JsonLoads(json_str)
      IN
      IF Strip(json_str) = <<>> THEN ParseLoop(Tail(slices))
      ELSE IF data.ok
        THEN [kind |-> "yield", val |-> data.val, text |-> json_str,
              rest |-> Tail(slices)]
      ELSE IF StartsWith(json_str, <<LB>>) \/ StartsWith(json_str, <<LK>>)
        THEN [kind |-> "raise", val |-> <<"err">>, text |-> json_str,
              rest |-> <<>>]
      ELSE ParseLoop(Tail(slices))

\* ------------------------------------------------------------- encoders

\* A JSON string literal of `chars`: quote and backslash escaped.
RECURSIVE EscapeChars(_)
EscapeChars(chars) ==
    IF chars = <<>> THEN <<>>
    ELSE (IF Head(chars) \in {QT, BS} THEN <<BS, Head(chars)>>
          ELSE <<Head(chars)>>) \o EscapeChars(Tail(chars))

EncodeString(chars) == <<QT>> \o EscapeChars(chars) \o <<QT>>

RECURSIVE EncodeNumber(_)
EncodeNumber(n) ==
    IF n < 10 THEN <<"1">> ELSE EncodeNumber(n \div 10) \o <<"1">>

\* The one-line text of a value; `sep` is what follows "," and ":" (nothing
\* for a compact encoder, a space for json.dumps's default).
RECURSIVE Encode(_, _)
RECURSIVE EncodePairs(_, _)
RECURSIVE EncodeItems(_, _)
EncodePairs(pairs, sep) ==
    IF pairs = <<>> THEN <<>>
    ELSE EncodeString(pairs[1][1]) \o <<CL>> \o sep \o Encode(pairs[1][2], sep)
         \o (IF Len(pairs) = 1 THEN <<>>
             ELSE <<CM>> \o sep \o EncodePairs(Tail(pairs), sep))

EncodeItems(items, sep) ==
    IF items = <<>> THEN <<>>
    ELSE Encode(items[1], sep)
         \o (IF Len(items) = 1 THEN <<>>
             ELSE <<CM>> \o sep \o EncodeItems(Tail(items), sep))

Encode(v, sep) ==
    CASE v[1] = "num" -> EncodeNumber(v[2])
      [] v[1] = "str" -> EncodeString(v[2])
      [] v[1] = "arr" -> <<LK>> \o EncodeItems(v[2], sep) \o <<RK>>
      [] v[1] = "obj" -> <<LB>> \o EncodePairs(v[2], sep) \o <<RB>>

\* ---------------------------------------------------------- _build_command

\* The literal tokens of lines 75-114.
FlagOutputFormat ==
    <<"-", "-", "o", "u", "t", "p", "u", "t", "-", "f", "o", "r",
      "m", "a", "t">>
StreamJson == <<"s", "t", "r", "e", "a", "m", "-", "j", "s", "o", "n">>
FlagVerbose == <<"-", "-", "v", "e", "r", "b", "o", "s", "e">>
FlagSystemPrompt ==
    <<"-", "-", "s", "y", "s", "t", "e", "m", "-", "p", "r", "o",
      "m", "p", "t">>
FlagAppendSystemPrompt ==
    <<"-", "-", "a", "p", "p", "e", "n", "d", "-", "s", "y", "s",
      "t", "e", "m", "-", "p", "r", "o", "m", "p", "t">>
FlagAllowedTools ==
    <<"-", "-", "a", "l", "l", "o", "w", "e", "d", "T", "o", "o",
      "l", "s">>
FlagMaxTurns == <<"-", "-", "m", "a", "x", "-", "t", "u", "r", "n", "s">>
FlagDisallowedTools ==
    <<"-", "-", "d", "i", "s", "a", "l", "l", "o", "w", "e", "d",
      "T", "o", "o", "l", "s">>
FlagModel == <<"-", "-", "m", "o", "d", "e", "l">>
FlagPermissionPromptTool ==
    <<"-", "-", "p", "e", "r", "m", "i", "s", "s", "i", "o", "n",
      "-", "p", "r", "o", "m", "p", "t", "-", "t", "o", "o", "l">>
FlagPermissionMode ==
    <<"-", "-", "p", "e", "r", "m", "i", "s", "s", "i", "o", "n",
      "-", "m", "o", "d", "e">>
FlagContinue == <<"-", "-", "c", "o", "n", "t", "i", "n", "u", "e">>
FlagResume == <<"-", "-", "r", "e", "s", "u", "m", "e">>
FlagMcpConfig ==
    <<"-", "-", "m", "c", "p", "-", "c", "o", "n", "f", "i", "g">>
FlagPrint == <<"-", "-", "p", "r", "i", "n", "t">>
McpServersKey == <<"m", "c", "p", "S", "e", "r", "v", "e", "r", "s">>

\* An option's value: None, or a str, int, bool, list or dict.
PyNone == <<"none">>
PyBool(b) == <<"bool", b>>

\* Python's truth test of `if self._options.x:`.
Truthy(v) ==
    CASE v[1] = "none" -> FALSE
      [] v[1] = "bool" -> v[2]
      [] v[1] = "num" -> v[2] # 0
      [] OTHER -> v[2] # <<>>

\* str() of a non-negative int.
Digits == <<"0", "1", "2", "3", "4", "5", "6", "7", "8", "9">>
RECURSIVE PyStr(_)
PyStr(n) ==
    IF n < 10 THEN <<Digits[n + 1]>>
    ELSE PyStr(n \div 10) \o <<Digits[(n % 10) + 1]>>

\* ",".join(items), the items being texts.
RECURSIVE CommaJoin(_)
CommaJoin(items) ==
    IF items = <<>> THEN <<>>
    ELSE IF Len(items) = 1 THEN items[1]
    ELSE items[1] \o <<CM>> \o CommaJoin(Tail(items))

\* The tokens each option adds to the command when it is set.
SystemPromptArgs(o) ==
    IF Truthy(o.system_prompt)
    THEN <<FlagSystemPrompt, o.system_prompt[2]>> ELSE <<>>
AppendSystemPromptArgs(o) ==
    IF Truthy(o.append_system_prompt)
    THEN <<FlagAppendSystemPrompt, o.append_system_prompt[2]>> ELSE <<>>
AllowedToolsArgs(o) ==
    IF Truthy(o.allowed_tools)
    THEN <<FlagAllowedTools, CommaJoin(o.allowed_tools[2])>> ELSE <<>>
MaxTurnsArgs(o) ==
    IF Truthy(o.max_turns)
    THEN <<FlagMaxTurns, PyStr(o.max_turns[2])>> ELSE <<>>
DisallowedToolsArgs(o) ==
    IF Truthy(o.disallowed_tools)
    THEN <<FlagDisallowedTools, CommaJoin(o.disallowed_tools[2])>> ELSE <<>>
ModelArgs(o) ==
    IF Truthy(o.model) THEN <<FlagModel, o.model[2]>> ELSE <<>>
PermissionPromptToolArgs(o) ==
    IF Truthy(o.permission_prompt_tool_name)
    THEN <<FlagPermissionPromptTool, o.permission_prompt_tool_name[2]>>
    ELSE <<>>
PermissionModeArgs(o) ==
    IF Truthy(o.permission_mode)
    THEN <<FlagPermissionMode, o.permission_mode[2]>> ELSE <<>>
ContinueArgs(o) ==
    IF Truthy(o.continue_conversation) THEN <<FlagContinue>> ELSE <<>>
ResumeArgs(o) ==
    IF Truthy(o.resume) THEN <<FlagResume, o.resume[2]>> ELSE <<>>
McpConfigArgs(o) ==
    IF Truthy(o.mcp_servers)
    THEN <<FlagMcpConfig,
           Encode(JObj(<< <<McpServersKey, o.mcp_servers>> >>), <<SP>>)>>
    ELSE <<>>

\* The model's flag put before the turn limit's.
BuildCommandModelFirst(cli_path, o, prompt_text) ==
    <<cli_path, FlagOutputFormat, StreamJson, FlagVerbose>>
    \o SystemPromptArgs(o) \o AppendSystemPromptArgs(o)
    \o AllowedToolsArgs(o) \o ModelArgs(o) \o MaxTurnsArgs(o)
    \o DisallowedToolsArgs(o)
    \o PermissionPromptToolArgs(o) \o PermissionModeArgs(o)
    \o ContinueArgs(o) \o ResumeArgs(o) \o McpConfigArgs(o)
    \o <<FlagPrint, prompt_text>>

\* The prompt put before the options.
BuildCommandPromptFirst(cli_path, o, prompt_text) ==
    <<cli_path, FlagOutputFormat, StreamJson, FlagVerbose>>
    \o <<FlagPrint, prompt_text>>
    \o SystemPromptArgs(o) \o AppendSystemPromptArgs(o)
    \o AllowedToolsArgs(o) \o MaxTurnsArgs(o) \o DisallowedToolsArgs(o)
    \o ModelArgs(o)
    \o PermissionPromptToolArgs(o) \o PermissionModeArgs(o)
    \o ContinueArgs(o) \o ResumeArgs(o) \o McpConfigArgs(o)

\* _build_command (lines 73-115): the tokens in the order of the code.
BuildCommand(cli_path, o, prompt_text) ==
    <<cli_path, FlagOutputFormat, StreamJson, FlagVerbose>>
    \o SystemPromptArgs(o) \o AppendSystemPromptArgs(o)
    \o AllowedToolsArgs(o) \o MaxTurnsArgs(o) \o DisallowedToolsArgs(o)
    \o ModelArgs(o)
    \o PermissionPromptToolArgs(o) \o PermissionModeArgs(o)
    \o ContinueArgs(o) \o ResumeArgs(o) \o McpConfigArgs(o)
    \o <<FlagPrint, prompt_text>>

\* ------------------------------------------------------------------ state

VARIABLES
    \* the transport's fields (lines 34-36): whether each holds an object
    process, stdout_stream, stderr_stream,
    \* the subprocess as the operating system has it, and its two pipes
    proc, exitCode, reaped, stdoutPipe, stderrPipe, signals,
    \* connect() and disconnect(): where the call stands, how it ended
    connPc, connOutcome, discPc, discOutcome,
    \* connect() called from several tasks: where each call stands; the
    \* subprocesses open_process has spawned, and those of them whose handle
    \* was overwritten in self._process (line 127)
    connTasks, spawned, orphans,
    \* the constructor's arguments (lines 30-32) and the command connect()
    \* last built (line 122)
    options, prompt, cli_path, cmd,
    \* receive_messages(): where the generator stands, its locals, what it
    \* yielded and how it ended; the read_stderr task
    recvPc, json_objects, stderr_lines, drainPc, yielded, outcome, cancelled,
    \* history: the chunks read from stdout so far
    stdoutRead

transportVars == <<process, stdout_stream, stderr_stream>>
osVars == <<proc, exitCode, reaped, stdoutPipe, stderrPipe>>
buildVars == <<options, prompt, cli_path, cmd>>
connVars == <<connPc, connOutcome, connTasks, spawned, orphans, buildVars>>
Callers == 1..MaxCallers
discVars == <<discPc, discOutcome, signals>>
recvVars == <<recvPc, json_objects, yielded, outcome, cancelled, stdoutRead>>
drainVars == <<stderr_lines, drainPc>>
vars == <<transportVars, osVars, connVars, discVars, recvVars, drainVars>>

\* How a call of receive_messages ended.
NoOutcome == [kind |-> "none", text |-> <<>>, code |-> 0, stderr |-> <<>>]
EndOk == [NoOutcome EXCEPT !.kind = "ok"]
EndClosed == [NoOutcome EXCEPT !.kind = "closed"]
CLIConnectionError == [NoOutcome EXCEPT !.kind = "CLIConnectionError"]
SDKJSONDecodeError(json_str) ==
    [NoOutcome EXCEPT !.kind = "CLIJSONDecodeError", !.text = json_str]
ProcessError(exit_code, stderr) ==
    [NoOutcome EXCEPT !.kind = "ProcessError", !.code = exit_code,
                      !.stderr = stderr]

\* ----------------------------------------------------------------- inputs

\* What the subprocess may write to stdout in one chunk in a whole run:
\* one message, two messages on one line, a broken object, log text.
SmallLines ==
    { <<LB, RB, NL>>,
      <<LB, RB, LB, QT, "a", QT, CL, "1", RB>>,
      <<LB, "a">>,
      <<"a", NL>> }

\* What it may write to stderr in one chunk.
ErrChunks ==
    { <<"E", "r", "r", "o", "r", NL>>,
      <<"w", "a", "r", "n">>,
      <<SP>> }

\* The exit codes a subprocess ends with (negative: ended by a signal).
ExitCodes == {0, 1, -9}

\* The options a transport may be built with: each absent, set, or set to
\* a value Python takes for false.
ToolNames ==
    << <<"R", "e", "a", "d">>, <<"B", "a", "s", "h">>, <<"E", "d", "i", "t">>,
       <<"G", "l", "o", "b">> >>
ToolLists == {JArr(SubSeq(ToolNames, 1, n)) : n \in 0..MaxTools}
OptionSpace ==
    [ system_prompt : {PyNone, JStr(<<>>), JStr(<<"s", "p">>)},
      append_system_prompt : {PyNone, JStr(<<"a", "s", "p">>)},
      allowed_tools : {PyNone} \cup ToolLists,
      max_turns : {PyNone, JNum(0), JNum(3), JNum(12)},
      disallowed_tools : {PyNone} \cup ToolLists,
      model : {PyNone, JStr(<<>>), JStr(<<"f", "a", "s", "t">>)},
      permission_prompt_tool_name : {PyNone, JStr(<<"t">>)},
      permission_mode : {PyNone, JStr(<<"p", "l", "a", "n">>)},
      continue_conversation : {PyBool(FALSE), PyBool(TRUE)},
      resume : {PyNone, JStr(<<"i", "d">>)},
      mcp_servers : {JObj(<<>>), JObj(<< <<<<"m">>, JObj(<<>>)>> >>)} ]

\* ClaudeCodeOptions() with nothing set.
NoOptions ==
    [ system_prompt |-> PyNone, append_system_prompt |-> PyNone,
      allowed_tools |-> JArr(<<>>), max_turns |-> PyNone,
      disallowed_tools |-> JArr(<<>>), model |-> PyNone,
      permission_prompt_tool_name |-> PyNone, permission_mode |-> PyNone,
      continue_conversation |-> PyBool(FALSE), resume |-> PyNone,
      mcp_servers |-> JObj(<<>>) ]

\* The state after __init__ (lines 30-36), whatever the options.
InitFields ==
    /\ prompt = <<"h", "i">>
    /\ cli_path = <<"c", "l", "a", "u", "d", "e">>
    /\ cmd = <<>>
    /\ process = FALSE /\ stdout_stream = FALSE /\ stderr_stream = FALSE
    /\ proc = "none" /\ exitCode = 0 /\ reaped = FALSE
    /\ stdoutPipe = <<>> /\ stderrPipe = <<>>
    /\ signals = <<>>
    /\ connPc = "idle" /\ connOutcome = "none"
    /\ connTasks = [c \in Callers |-> "idle"] /\ spawned = 0 /\ orphans = 0
    /\ discPc = "idle" /\ discOutcome = "none"
    /\ recvPc = "idle" /\ json_objects = <<>> /\ stderr_lines = <<>>
    /\ drainPc = "none" /\ yielded = <<>> /\ outcome = NoOutcome
    /\ cancelled = FALSE /\ stdoutRead = <<>>

Init == InitFields /\ options = NoOptions

\* ------------------------------------------------------------- subprocess

\* A pipe holds what the subprocess wrote since the reader's last read: the
\* text stream hands all of it over as one chunk.  The subprocess writes a
\* next chunk once the last one is taken, MaxLines chunks to stdout and
\* MaxErrLines to stderr at most.

ProcWriteStdout ==
    /\ proc = "running" /\ stdoutPipe = <<>>
    /\ Len(stdoutRead) < MaxLines
    /\ \E line \in SmallLines : stdoutPipe' = <<line>>
    /\ UNCHANGED <<proc, exitCode, reaped, stderrPipe>>
    /\ UNCHANGED <<transportVars, connVars, discVars, recvVars, drainVars>>

ProcWriteStderr ==
    /\ proc = "running" /\ stderrPipe = <<>>
    /\ Len(stderr_lines) < MaxErrLines
    /\ \E line \in ErrChunks : stderrPipe' = <<line>>
    /\ UNCHANGED <<proc, exitCode, reaped, stdoutPipe>>
    /\ UNCHANGED <<transportVars, connVars, discVars, recvVars, drainVars>>

\* The subprocess ends, by itself or by a signal; its pipes close with it.
ProcExit ==
    /\ proc = "running"
    /\ proc' = "exited"
    /\ \E code \in ExitCodes : exitCode' = code
    /\ UNCHANGED <<reaped, stdoutPipe, stderrPipe>>
    /\ UNCHANGED <<transportVars, connVars, discVars, recvVars, drainVars>>

\* The event loop learns the exit status: Process.returncode is set from
\* here on and Process.wait() returns.
ProcReap ==
    /\ proc = "exited" /\ ~reaped
    /\ reaped' = TRUE
    /\ UNCHANGED <<proc, exitCode, stdoutPipe, stderrPipe>>
    /\ UNCHANGED <<transportVars, connVars, discVars, recvVars, drainVars>>

\* self._process.returncode is None
ReturncodeIsNone == ~reaped

\* wait() returning at once, whether or not the subprocess has ended.
WaitReturnsAtOnce == TRUE

\* is_connected() (lines 261-263).
is_connected == process /\ ReturncodeIsNone

\* `await self._process.wait()` returns
WaitReturns == reaped

\* One caller uses the transport, one call at a time: a call begins only
\* when no other call of his is under way.
Sequential ==
    /\ connPc = "idle"
    /\ discPc \in {"idle", "done"}
    /\ recvPc \in {"idle", "done"}

\* ---------------------------------------------------------------- connect

\* `if self._process: return` (lines 119-120)
ConnectNoop ==
    /\ Sequential /\ process
    /\ UNCHANGED vars

\* The command is built and open_process awaited (lines 122-134).  The
\* model follows one subprocess: a transport spawns once.
ConnectBegin ==
    /\ Sequential /\ ~process /\ proc = "none"
    /\ connPc' = "spawning"
    /\ cmd' = BuildCommand(cli_path, options, prompt)
    /\ UNCHANGED <<connTasks, spawned, orphans, options, prompt, cli_path>>
    /\ UNCHANGED <<connOutcome, transportVars, osVars, discVars, recvVars,
                   drainVars>>

\* open_process returned: the handle and both text streams are kept
\* (lines 127-139).
ConnectSpawned ==
    /\ connPc = "spawning"
    /\ process' = TRUE /\ stdout_stream' = TRUE /\ stderr_stream' = TRUE
    /\ proc' = "running"
    /\ connPc' = "idle" /\ connOutcome' = "ok"
    /\ spawned' = spawned + 1
    /\ orphans' = IF process THEN orphans + 1 ELSE orphans
    /\ UNCHANGED <<connTasks, buildVars>>
    /\ UNCHANGED <<exitCode, reaped, stdoutPipe, stderrPipe>>
    /\ UNCHANGED <<discVars, recvVars, drainVars>>

\* open_process raised (lines 141-144).
ConnectFailed ==
    /\ connPc = "spawning"
    /\ connPc' = "idle"
    /\ \E e \in {"CLINotFoundError", "CLIConnectionError"} : connOutcome' = e
    /\ UNCHANGED <<connTasks, spawned, orphans, buildVars>>
    /\ UNCHANGED <<transportVars, osVars, discVars, recvVars, drainVars>>

\* ------------------------------------------------------------- disconnect

\* Lines 162-164.
ClearHandles ==
    /\ process' = FALSE /\ stdout_stream' = FALSE /\ stderr_stream' = FALSE

\* `if not self._process: return` (lines 148-149)
DisconnectNoop ==
    /\ Sequential /\ ~process
    /\ UNCHANGED vars

\* returncode is already set: nothing is signalled (lines 151, 162-164).
DisconnectExited ==
    /\ Sequential /\ process /\ ~ReturncodeIsNone
    /\ ClearHandles
    /\ discPc' = "done" /\ discOutcome' = "ok"
    /\ UNCHANGED <<signals, osVars, connVars, recvVars, drainVars>>

\* terminate() is sent and the bounded wait begins (lines 153-155).  A
\* subprocess that has ended and whose status is not yet known may take the
\* signal silently.
DisconnectTerminate ==
    /\ Sequential /\ process /\ ReturncodeIsNone
    /\ Len(signals) < MaxSignals
    /\ signals' = Append(signals, "terminate")
    /\ discPc' = "term_wait"
    /\ UNCHANGED <<discOutcome, transportVars, osVars, connVars, recvVars,
                   drainVars>>

\* terminate() raises ProcessLookupError: the subprocess had ended
\* (lines 153, 159-164).
DisconnectTerminateRace ==
    /\ Sequential /\ process /\ ReturncodeIsNone
    /\ proc = "exited"
    /\ ClearHandles
    /\ discPc' = "done" /\ discOutcome' = "ok"
    /\ UNCHANGED <<signals, osVars, connVars, recvVars, drainVars>>

\* wait() returns within fail_after(5.0) (lines 154-155, 162-164).
DisconnectWaitDone ==
    /\ discPc = "term_wait" /\ WaitReturns
    /\ ClearHandles
    /\ discPc' = "done" /\ discOutcome' = "ok"
    /\ UNCHANGED <<signals, osVars, connVars, recvVars, drainVars>>

\* kill() sent after the bounded wait whether or not wait() had returned.
DisconnectKillAnyway ==
    /\ discPc = "term_wait"
    /\ Len(signals) < MaxSignals
    /\ signals' = Append(signals, "kill")
    /\ discPc' = "kill_wait"
    /\ UNCHANGED <<discOutcome, transportVars, osVars, connVars, recvVars,
                   drainVars>>

\* fail_after(5.0) expires, kill() is sent and the unbounded wait begins
\* (lines 156-158).
DisconnectTimeoutKill ==
    /\ discPc = "term_wait" /\ ~WaitReturns
    /\ Len(signals) < MaxSignals
    /\ signals' = Append(signals, "kill")
    /\ discPc' = "kill_wait"
    /\ UNCHANGED <<discOutcome, transportVars, osVars, connVars, recvVars,
                   drainVars>>

\* fail_after(5.0) expires and kill() raises ProcessLookupError: the
\* subprocess ended during the wait.  The error is raised inside the
\* `except TimeoutError` handler (line 157), where the ProcessLookupError
\* clause of the same try statement (line 159) does not apply: it leaves
\* disconnect() before lines 162-164.
DisconnectKillRace ==
    /\ discPc = "term_wait" /\ ~WaitReturns
    /\ proc = "exited"
    /\ discPc' = "done" /\ discOutcome' = "ProcessLookupError"
    /\ UNCHANGED <<signals, transportVars, osVars, connVars, recvVars,
                   drainVars>>

\* wait() after kill() returns (lines 158, 162-164).
DisconnectKillWaitDone ==
    /\ discPc = "kill_wait" /\ WaitReturns
    /\ ClearHandles
    /\ discPc' = "done" /\ discOutcome' = "ok"
    /\ UNCHANGED <<signals, osVars, connVars, recvVars, drainVars>>

\* ------------------------------------------------------- receive_messages

\* The task group is left by an exception: its children are cancelled.
CancelledDrain == IF drainPc = "running" THEN "cancelled" ELSE drainPc

\* The parse loop with each new message put before the ones yielded so far.
RunParseLoopNewestFirst(slices) ==
    LET r == ParseLoop(slices) IN
    /\ json_objects' = r.rest
    /\ yielded' = IF r.kind = "yield" THEN <<r.val>> \o yielded ELSE yielded
    /\ recvPc' = CASE r.kind = "yield" -> "yielded"
                   [] r.kind = "raise" -> "done"
                   [] OTHER -> "read"
    /\ outcome' = IF r.kind = "raise" THEN SDKJSONDecodeError(r.text)
                  ELSE outcome
    /\ drainPc' = IF r.kind = "raise" THEN CancelledDrain ELSE drainPc

\* The parse loop runs from the head of `slices` to where the generator
\* next suspends or ends (lines 232-246): at a yield, at the raise of
\* SDKJSONDecodeError, which takes it out of the task group, or back at the
\* read of the next line.
RunParseLoop(slices) ==
    LET r == ParseLoop(slices) IN
    /\ json_objects' = r.rest
    /\ yielded' = IF r.kind = "yield" THEN Append(yielded, r.val) ELSE yielded
    /\ recvPc' = CASE r.kind = "yield" -> "yielded"
                   [] r.kind = "raise" -> "done"
                   [] OTHER -> "read"
    /\ outcome' = IF r.kind = "raise" THEN SDKJSONDecodeError(r.text)
                  ELSE outcome
    /\ drainPc' = IF r.kind = "raise" THEN CancelledDrain ELSE drainPc

\* Lines 171-172 left out: the generator ends at once without an error.
RecvNotConnectedSilent ==
    /\ Sequential /\ recvPc = "idle"
    /\ ~process \/ ~stdout_stream
    /\ recvPc' = "done" /\ outcome' = EndOk
    /\ UNCHANGED <<json_objects, yielded, cancelled, stdoutRead>>
    /\ UNCHANGED <<transportVars, osVars, connVars, discVars, drainVars>>

\* Lines 171-172.
RecvNotConnected ==
    /\ Sequential /\ recvPc = "idle"
    /\ ~process \/ ~stdout_stream
    /\ recvPc' = "done" /\ outcome' = CLIConnectionError
    /\ UNCHANGED <<json_objects, yielded, cancelled, stdoutRead>>
    /\ UNCHANGED <<transportVars, osVars, connVars, discVars, drainVars>>

\* The task group is entered and read_stderr started (lines 174-189).
RecvStart ==
    /\ Sequential /\ recvPc = "idle"
    /\ process /\ stdout_stream
    /\ recvPc' = "read"
    /\ drainPc' = IF stderr_stream THEN "running" ELSE "done"
    /\ UNCHANGED <<json_objects, yielded, outcome, cancelled, stdoutRead,
                   stderr_lines>>
    /\ UNCHANGED <<transportVars, osVars, connVars, discVars>>

\* The stdout stream delivers its next chunk; it is trimmed, skipped when
\* blank, else scanned and parsed (lines 189-246).
RecvReadLine ==
    /\ recvPc = "read" /\ stdoutPipe # <<>>
    /\ LET line == Head(stdoutPipe)
           line_str == Strip(line)
       IN
       /\ stdoutPipe' = Tail(stdoutPipe)
       /\ stdoutRead' = Append(stdoutRead, line)
       /\ IF line_str = <<>>
          THEN UNCHANGED <<recvPc, json_objects, yielded, outcome, drainPc>>
          ELSE RunParseLoop(JsonObjects(line_str))
    /\ UNCHANGED <<cancelled, stderr_lines>>
    /\ UNCHANGED <<proc, exitCode, reaped, stderrPipe>>
    /\ UNCHANGED <<transportVars, connVars, discVars>>

\* The consumer asks for the next message: the generator resumes after the
\* yield (line 239) and goes on with the line's remaining slices.
ConsumerNext ==
    /\ recvPc = "yielded"
    /\ RunParseLoop(json_objects)
    /\ UNCHANGED <<cancelled, stdoutRead, stderr_lines>>
    /\ UNCHANGED <<transportVars, osVars, connVars, discVars>>

\* The consumer closes the generator: GeneratorExit is raised at the yield
\* and answered by `return` (lines 240-242), which leaves the task group
\* without an exception, so that it waits for read_stderr; line 251 and
\* what follows are not run.
ConsumerClose ==
    /\ recvPc = "yielded"
    /\ recvPc' = "join" /\ cancelled' = TRUE
    /\ UNCHANGED <<json_objects, yielded, outcome, stdoutRead>>
    /\ UNCHANGED <<transportVars, osVars, connVars, discVars, drainVars>>

\* The stdout stream ends: the subprocess has closed it (line 189).
RecvReadEOF ==
    /\ recvPc = "read" /\ stdoutPipe = <<>> /\ proc = "exited"
    /\ recvPc' = "join"
    /\ UNCHANGED <<json_objects, yielded, outcome, cancelled, stdoutRead>>
    /\ UNCHANGED <<transportVars, osVars, connVars, discVars, drainVars>>

\* The task group's exit after `return`: read_stderr has ended, and so
\* does the generator.
RecvJoinReturn ==
    /\ recvPc = "join" /\ cancelled /\ drainPc = "done"
    /\ recvPc' = "done" /\ outcome' = EndClosed
    /\ UNCHANGED <<json_objects, yielded, cancelled, stdoutRead>>
    /\ UNCHANGED <<transportVars, osVars, connVars, discVars, drainVars>>

\* The stdout loop going on to line 251 without the task group's wait for
\* read_stderr.
RecvJoinWaitEarly ==
    /\ recvPc = "join" /\ ~cancelled
    /\ recvPc' = "wait"
    /\ UNCHANGED <<json_objects, yielded, outcome, cancelled, stdoutRead>>
    /\ UNCHANGED <<transportVars, osVars, connVars, discVars, drainVars>>

\* The task group's exit after the stdout loop: read_stderr has ended, and
\* self._process.wait() is awaited (lines 185, 251).
RecvJoinWait ==
    /\ recvPc = "join" /\ ~cancelled /\ drainPc = "done"
    /\ recvPc' = "wait"
    /\ UNCHANGED <<json_objects, yielded, outcome, cancelled, stdoutRead>>
    /\ UNCHANGED <<transportVars, osVars, connVars, discVars, drainVars>>

\* Line 254 left out: any text will do.
MentionsErrorAlways(stderr_output) == TRUE

\* Line 254, on the joined stderr text.
MentionsError(stderr_output) ==
    /\ stderr_output # <<>>
    /\ Contains(Lower(stderr_output), <<"e", "r", "r", "o", "r">>)

\* Lines 252-259: how the generator ends once wait() has returned.
ExitOutcome ==
    LET stderr_output == JoinLines(stderr_lines) IN
    IF ~ReturncodeIsNone /\ exitCode # 0 /\ MentionsError(stderr_output)
    THEN ProcessError(exitCode, stderr_output)
    ELSE EndOk

\* wait() returns and the exit status is matched with stderr
\* (lines 251-259).
RecvWaitDone ==
    /\ recvPc = "wait" /\ WaitReturns
    /\ recvPc' = "done" /\ outcome' = ExitOutcome
    /\ UNCHANGED <<json_objects, yielded, cancelled, stdoutRead>>
    /\ UNCHANGED <<transportVars, osVars, connVars, discVars, drainVars>>

\* ------------------------------------------------------------ read_stderr

\* The stderr stream delivers its next chunk (lines 180-181).
DrainRead ==
    /\ drainPc = "running" /\ stderrPipe # <<>>
    /\ stderr_lines' = Append(stderr_lines, Strip(Head(stderrPipe)))
    /\ stderrPipe' = Tail(stderrPipe)
    /\ UNCHANGED <<drainPc, proc, exitCode, reaped, stdoutPipe>>
    /\ UNCHANGED <<transportVars, connVars, discVars, recvVars>>

\* The stderr stream ends: the subprocess has closed it (line 180).
DrainEOF ==
    /\ drainPc = "running" /\ stderrPipe = <<>> /\ proc = "exited"
    /\ drainPc' = "done"
    /\ UNCHANGED <<stderr_lines>>
    /\ UNCHANGED <<transportVars, osVars, connVars, discVars, recvVars>>

\* ---------------------------------------------------------- specification

Connect == ConnectNoop \/ ConnectBegin \/ ConnectSpawned \/ ConnectFailed

Disconnect ==
    \/ DisconnectNoop \/ DisconnectExited
    \/ DisconnectTerminate \/ DisconnectTerminateRace
    \/ DisconnectWaitDone \/ DisconnectTimeoutKill \/ DisconnectKillRace
    \/ DisconnectKillWaitDone

Receive ==
    \/ RecvNotConnected \/ RecvStart \/ RecvReadLine \/ RecvReadEOF
    \/ RecvJoinReturn \/ RecvJoinWait \/ RecvWaitDone

ReadStderr == DrainRead \/ DrainEOF

Consumer == ConsumerNext \/ ConsumerClose

Subprocess == ProcWriteStdout \/ ProcWriteStderr \/ ProcExit \/ ProcReap

Next == Connect \/ Disconnect \/ Receive \/ ReadStderr \/ Consumer
        \/ Subprocess

Spec == Init /\ [][Next]_vars

\* ------------------------------------------ connect() from several tasks

\* `if self._process: return` (lines 119-120) in task c.
RaceConnectNoop(c) ==
    /\ connTasks[c] = "idle" /\ process
    /\ connTasks' = [connTasks EXCEPT ![c] = "done"]
    /\ UNCHANGED <<connPc, connOutcome, spawned, orphans, buildVars>>
    /\ UNCHANGED <<transportVars, osVars, discVars, recvVars, drainVars>>

\* Task c finds self._process unset (line 119), builds the command and
\* suspends in `await anyio.open_process` (line 127): other tasks run.
RaceConnectBegin(c) ==
    /\ connTasks[c] = "idle" /\ ~process
    /\ connTasks' = [connTasks EXCEPT ![c] = "spawning"]
    /\ cmd' = BuildCommand(cli_path, options, prompt)
    /\ UNCHANGED <<connPc, connOutcome, spawned, orphans, options, prompt,
                   cli_path>>
    /\ UNCHANGED <<transportVars, osVars, discVars, recvVars, drainVars>>

\* open_process returns in task c: a subprocess has been spawned, and its
\* handle and streams are assigned over whatever the fields held
\* (lines 127-139).
RaceConnectSpawned(c) ==
    /\ connTasks[c] = "spawning"
    /\ connTasks' = [connTasks EXCEPT ![c] = "done"]
    /\ spawned' = spawned + 1
    /\ orphans' = IF process THEN orphans + 1 ELSE orphans
    /\ process' = TRUE /\ stdout_stream' = TRUE /\ stderr_stream' = TRUE
    /\ proc' = "running" /\ exitCode' = 0 /\ reaped' = FALSE
    /\ stdoutPipe' = <<>> /\ stderrPipe' = <<>>
    /\ connOutcome' = "ok"
    /\ UNCHANGED <<connPc, buildVars, discVars, recvVars, drainVars>>

\* open_process raises in task c (lines 141-144).
RaceConnectFailed(c) ==
    /\ connTasks[c] = "spawning"
    /\ connTasks' = [connTasks EXCEPT ![c] = "done"]
    /\ \E e \in {"CLINotFoundError", "CLIConnectionError"} : connOutcome' = e
    /\ UNCHANGED <<connPc, spawned, orphans, buildVars>>
    /\ UNCHANGED <<transportVars, osVars, discVars, recvVars, drainVars>>

\* connect() is called from the tasks of Callers, once by each, and nothing
\* else is called; the subprocess the fields refer to runs.
NextConnectRace ==
    \/ \E c \in Callers :
          \/ RaceConnectNoop(c) \/ RaceConnectBegin(c)
          \/ RaceConnectSpawned(c) \/ RaceConnectFailed(c)
    \/ Subprocess

SpecConnectRace == Init /\ [][NextConnectRace]_vars

\* ------------------------------------------------- connect() and its command

\* connect() is called on a fresh transport built with any of the options.
InitBuild == InitFields /\ options \in OptionSpace

NextBuild == ConnectBegin \/ ConnectSpawned \/ ConnectFailed

SpecBuild == InitBuild /\ [][NextBuild]_vars

\* ------------------------------ disconnect() while receive_messages runs

\* 'NoneType' object has no attribute 'wait' / 'returncode': self._process
\* is read at lines 251 and 252 after disconnect() has set it to None.
AttributeError == [NoOutcome EXCEPT !.kind = "AttributeError"]

\* A call of disconnect() or receive_messages() begins in a task of its
\* own, or at a point where the generator is suspended: no call of the same
\* method and no connect() is under way, the other method may be.
DisconnectMayBegin == connPc = "idle" /\ discPc \in {"idle", "done"}
ReceiveMayBegin == connPc = "idle" /\ recvPc = "idle"

\* `if not self._process: return` (lines 148-149)
RaceDisconnectNoop ==
    /\ DisconnectMayBegin /\ ~process
    /\ UNCHANGED vars

\* Lines 151, 162-164.
RaceDisconnectExited ==
    /\ DisconnectMayBegin /\ process /\ ~ReturncodeIsNone
    /\ ClearHandles
    /\ discPc' = "done" /\ discOutcome' = "ok"
    /\ UNCHANGED <<signals, osVars, connVars, recvVars, drainVars>>

\* Lines 153-155.
RaceDisconnectTerminate ==
    /\ DisconnectMayBegin /\ process /\ ReturncodeIsNone
    /\ Len(signals) < MaxSignals
    /\ signals' = Append(signals, "terminate")
    /\ discPc' = "term_wait"
    /\ UNCHANGED <<discOutcome, transportVars, osVars, connVars, recvVars,
                   drainVars>>

\* Lines 153, 159-164.
RaceDisconnectTerminateRace ==
    /\ DisconnectMayBegin /\ process /\ ReturncodeIsNone
    /\ proc = "exited"
    /\ ClearHandles
    /\ discPc' = "done" /\ discOutcome' = "ok"
    /\ UNCHANGED <<signals, osVars, connVars, recvVars, drainVars>>

\* Lines 171-172.
RaceRecvNotConnected ==
    /\ ReceiveMayBegin
    /\ ~process \/ ~stdout_stream
    /\ recvPc' = "done" /\ outcome' = CLIConnectionError
    /\ UNCHANGED <<json_objects, yielded, cancelled, stdoutRead>>
    /\ UNCHANGED <<transportVars, osVars, connVars, discVars, drainVars>>

\* Lines 174-189: the loops iterate the stream objects the fields held when
\* they began, whatever the fields are set to later.
RaceRecvStart ==
    /\ ReceiveMayBegin
    /\ process /\ stdout_stream
    /\ recvPc' = "read"
    /\ drainPc' = IF stderr_stream THEN "running" ELSE "done"
    /\ UNCHANGED <<json_objects, yielded, outcome, cancelled, stdoutRead,
                   stderr_lines>>
    /\ UNCHANGED <<transportVars, osVars, connVars, discVars>>

\* Line 251: `self._process.wait()` is evaluated once read_stderr has
\* ended; on None the attribute lookup raises.
RaceRecvJoinWait ==
    /\ recvPc = "join" /\ ~cancelled /\ drainPc = "done"
    /\ IF process
       THEN recvPc' = "wait" /\ outcome' = outcome
       ELSE recvPc' = "done" /\ outcome' = AttributeError
    /\ UNCHANGED <<json_objects, yielded, cancelled, stdoutRead>>
    /\ UNCHANGED <<transportVars, osVars, connVars, discVars, drainVars>>

\* Lines 251-259: wait() returns on the Process object it was called on;
\* line 252 reads self._process anew.
RaceRecvWaitDone ==
    /\ recvPc = "wait" /\ WaitReturns
    /\ recvPc' = "done"
    /\ outcome' = IF process THEN ExitOutcome ELSE AttributeError
    /\ UNCHANGED <<json_objects, yielded, cancelled, stdoutRead>>
    /\ UNCHANGED <<transportVars, osVars, connVars, discVars, drainVars>>

\* connect() is awaited first; then disconnect() and receive_messages()
\* run in tasks of one event loop and interleave at their awaits and at
\* the generator's yields.
NextDisconnectRace ==
    \/ ConnectBegin \/ ConnectSpawned \/ ConnectFailed
    \/ RaceDisconnectNoop \/ RaceDisconnectExited
    \/ RaceDisconnectTerminate \/ RaceDisconnectTerminateRace
    \/ DisconnectWaitDone \/ DisconnectTimeoutKill \/ DisconnectKillRace
    \/ DisconnectKillWaitDone
    \/ RaceRecvNotConnected \/ RaceRecvStart \/ RecvReadLine \/ RecvReadEOF
    \/ RecvJoinReturn \/ RaceRecvJoinWait \/ RaceRecvWaitDone
    \/ ReadStderr \/ Consumer \/ Subprocess

SpecDisconnectRace == Init /\ [][NextDisconnectRace]_vars

\* ------------------------------------------- the extractor on single lines

\* All sequences over `chars` of length n at most.
RECURSIVE SeqsUpTo(_, _)
SeqsUpTo(chars, n) ==
    IF n = 0 THEN {<<>>}
    ELSE LET shorter == SeqsUpTo(chars, n - 1) IN
         shorter \cup {Append(s, c) : s \in shorter, c \in chars}

\* The contents of string literals: the characters the scan must not take
\* for structure, and a letter.
StrChars == {LB, RB, QT, BS, "a"}
Strings == SeqsUpTo(StrChars, MaxStrLen)
ShortStrings == SeqsUpTo(StrChars, 1)
Keys == {<<"a">>, <<RB>>, <<QT>>}

\* What a member of a generated object may hold.
MemberValues ==
    {JStr(s) : s \in Strings}
    \cup {JNum(1), JNum(11), JObj(<<>>), JArr(<<>>)}
    \cup {JArr(<<JStr(s)>>) : s \in ShortStrings}
    \cup {JObj(<< <<<<"a">>, JStr(s)>> >>) : s \in ShortStrings}

\* The JSON objects whose texts are fed to the extractor.
ObjectValues ==
    {JObj(<<>>)}
    \cup {JObj(<< <<k, v>> >>) : k \in Keys, v \in MemberValues}
    \cup {JObj(<< <<<<"a">>, JStr(s)>>, <<<<LB>>, JStr(u)>> >>) :
             s \in ShortStrings, u \in ShortStrings}

\* The two encoders' separators: compact, and json.dumps's default.
Separators == {<<>>, <<SP>>}

\* Each object's one-line texts.
EncodingsOf == [x \in ObjectValues |-> {Encode(x, sep) : sep \in Separators}]
ObjectTexts == UNION {EncodingsOf[x] : x \in ObjectValues}

\* A few objects to stand beside each of the others on one line.
FewTexts ==
    { <<LB, RB>>,
      <<LB, QT, RB, QT, CL, QT, LB, QT, RB>>,
      <<LB, QT, "a", QT, CL, SP, QT, BS, QT, QT, RB>> }

\* Lines of arbitrary characters: the ones the scan looks at, an opening
\* bracket and a letter.
JunkChars == {LB, RB, LK, QT, BS, "a"}
JunkLines == SeqsUpTo(JunkChars, MaxJunkLen)

\* Lines of blank space only.
BlankLines == {<<SP>>, <<NL>>, <<SP, SP, NL>>}

\* The lines the extractor is run on: one object with or without blank
\* space around it, two objects with nothing between them, arbitrary
\* characters, and blank lines.
ExtractLines ==
    {pre \o text \o post :
        pre \in {<<>>, <<SP>>}, text \in ObjectTexts, post \in {<<>>, <<NL>>}}
    \cup {a \o b : a \in ObjectTexts, b \in FewTexts}
    \cup {a \o b : a \in FewTexts, b \in ObjectTexts}
    \cup JunkLines \cup BlankLines

\* The transport is connected, the subprocess has written one line and
\* ended with status 0, read_stderr has seen the end of stderr, and
\* receive_messages is about to read.
InitExtract ==
    /\ process = TRUE /\ stdout_stream = TRUE /\ stderr_stream = TRUE
    /\ proc = "exited" /\ exitCode = 0 /\ reaped = TRUE
    /\ stdoutPipe \in {<<line>> : line \in ExtractLines}
    /\ stderrPipe = <<>>
    /\ signals = <<>>
    /\ connPc = "idle" /\ connOutcome = "ok"
    /\ connTasks = [c \in Callers |-> "idle"] /\ spawned = 1 /\ orphans = 0
    /\ options = NoOptions /\ prompt = <<"h", "i">>
    /\ cli_path = <<"c", "l", "a", "u", "d", "e">>
    /\ cmd = BuildCommand(cli_path, options, prompt)
    /\ discPc = "idle" /\ discOutcome = "none"
    /\ recvPc = "read" /\ json_objects = <<>> /\ stderr_lines = <<>>
    /\ drainPc = "done" /\ yielded = <<>> /\ outcome = NoOutcome
    /\ cancelled = FALSE /\ stdoutRead = <<>>

\* The consumer takes every message.
NextExtract ==
    RecvReadLine \/ ConsumerNext \/ RecvReadEOF \/ RecvJoinWait
    \/ RecvWaitDone

SpecExtract == InitExtract /\ [][NextExtract]_vars

\* ------------------------------------------------- claims on single lines

\* receive_messages has ended after reading exactly one line from stdout.
OneLineDone == recvPc = "done" /\ Len(stdoutRead) = 1
TheLine == stdoutRead[1]

\* t is the text of one well-formed JSON object.
IsObjectText(t) ==
    LET r == JsonLoads(t) IN r.ok /\ r.val[1] = "obj"

\* The index of the first of `slices` that json.loads rejects, 0 if none.
FirstBad(slices) ==
    IF \A i \in 1..Len(slices) : JsonLoads(slices[i]).ok THEN 0
    ELSE CHOOSE i \in 1..Len(slices) :
            /\ ~JsonLoads(slices[i]).ok
            /\ \A j \in 1..(i - 1) : JsonLoads(slices[j]).ok

\* Each slice is parsed on its own, left to right: the messages before the
\* first slice that does not parse are yielded and that slice is raised as
\* a decode error; with no such slice all are yielded and no error raised.
SlicewiseRun(slices) ==
    LET bad == FirstBad(slices)
        n == IF bad = 0 THEN Len(slices) ELSE bad - 1
    IN
    /\ yielded = [i \in 1..n |-> JsonLoads(slices[i]).val]
    /\ outcome = IF bad = 0 THEN EndOk ELSE SDKJSONDecodeError(slices[bad])

\* C1: a line made of two well-formed JSON object texts with nothing
\* between them yields exactly two messages, left to right, each equal to
\* parsing its own text, and raises no error.
C1_TwoObjectsOnOneLine ==
    OneLineDone =>
        \A i \in 1..(Len(TheLine) - 1) :
            LET left == SubSeq(TheLine, 1, i)
                right == SubSeq(TheLine, i + 1, Len(TheLine))
            IN
            (IsObjectText(left) /\ IsObjectText(right)) =>
                /\ yielded = <<JsonLoads(left).val, JsonLoads(right).val>>
                /\ outcome = EndOk

\* {"}":"{"}{"a": "\""} was read and gave its two messages.
C1_Witness ==
    /\ OneLineDone
    /\ TheLine = <<LB, QT, RB, QT, CL, QT, LB, QT, RB,
                   LB, QT, "a", QT, CL, SP, QT, BS, QT, QT, RB>>
    /\ yielded = <<JObj(<< <<<<RB>>, JStr(<<LB>>)>> >>),
                   JObj(<< <<<<"a">>, JStr(<<QT>>)>> >>)>>

\* C2: the one-line encoding of a JSON object whose strings hold braces,
\* escaped quotes or escaped backslashes is scanned to exactly one slice,
\* the whole encoding, and the message yielded is the object encoded.
C2_StringsHideBraces ==
    OneLineDone =>
        \A x \in ObjectValues :
            TheLine \in EncodingsOf[x] =>
                /\ ScanLine(TheLine).json_objects = <<TheLine>>
                /\ yielded = <<x>>
                /\ outcome = EndOk

\* {"}":"{\""} was read and gave the object it encodes.
C2_Witness ==
    /\ OneLineDone
    /\ TheLine = <<LB, QT, RB, QT, CL, QT, LB, BS, QT, QT, RB>>
    /\ yielded = <<JObj(<< <<<<RB>>, JStr(<<LB, QT>>)>> >>)>>

\* C3: a line that is one well-formed JSON object (blank space around it
\* aside) yields exactly one message, equal to parsing the line directly.
C3_OneObjectOnOneLine ==
    (OneLineDone /\ IsObjectText(TheLine)) =>
        /\ yielded = <<JsonLoads(TheLine).val>>
        /\ outcome = EndOk

\* {"a":{"a":"}"}} and a newline were read and gave one nested object.
C3_Witness ==
    /\ OneLineDone
    /\ TheLine = <<LB, QT, "a", QT, CL, LB, QT, "a", QT, CL, QT, RB, QT,
                   RB, RB, NL>>
    /\ yielded = <<JObj(<< <<<<"a">>,
                             JObj(<< <<<<"a">>, JStr(<<RB>>)>> >>)>> >>)>>

\* C4 as claimed: a line that begins with "{" and does not parse as JSON
\* raises a decode error carrying the line's text.
C4_BraceLineRaisesWithLine ==
    (OneLineDone /\ StartsWith(TheLine, <<LB>>) /\ ~JsonLoads(TheLine).ok) =>
        /\ outcome.kind = "CLIJSONDecodeError"
        /\ outcome.text \in {TheLine, Strip(TheLine)}

\* C4 as amended: on a line whose trimmed text begins with "{", the
\* candidate slices (the balanced spans, or the whole trimmed line when
\* there is none) are parsed one by one; the first that does not parse is
\* raised as a decode error carrying that slice, after the messages of the
\* slices before it; text outside the spans is dropped without an error.
C4_BraceLineRaisesWithSlice ==
    (OneLineDone /\ StartsWith(Strip(TheLine), <<LB>>)) =>
        SlicewiseRun(JsonObjects(Strip(TheLine)))

\* {a}a was read: the decode error carries the span {a}, not the line.
C4_Witness ==
    /\ OneLineDone
    /\ TheLine = <<LB, "a", RB, "a">>
    /\ outcome = SDKJSONDecodeError(<<LB, "a", RB>>)

\* C5 as claimed: a line that begins with neither "{" nor "[" and does not
\* parse as JSON yields no message and raises no error.
C5_LogLineSkipped ==
    LET line_str == Strip(TheLine) IN
    (/\ OneLineDone
     /\ line_str # <<>> /\ line_str[1] \notin {LB, LK}
     /\ ~JsonLoads(TheLine).ok) =>
        /\ yielded = <<>>
        /\ outcome = EndOk

\* C5 as amended: such a line yields no message and raises no error when
\* the scan finds no balanced span in it; when it finds some, they are
\* parsed one by one like those of any other line.
C5_LogLineWithoutSpanSkipped ==
    LET line_str == Strip(TheLine) IN
    (/\ OneLineDone
     /\ line_str # <<>> /\ line_str[1] \notin {LB, LK}
     /\ ~JsonLoads(TheLine).ok) =>
        IF ScanLine(line_str).json_objects = <<>>
        THEN yielded = <<>> /\ outcome = EndOk
        ELSE SlicewiseRun(ScanLine(line_str).json_objects)

\* The log text aa{a was read and passed over.
C5_Witness ==
    /\ OneLineDone
    /\ TheLine = <<"a", "a", LB, "a">>
    /\ yielded = <<>>
    /\ outcome = EndOk

\* ----------------------------------------------- claims on the whole run

\* The messages of one line: its candidate slices that parse, in order.
RECURSIVE ParsedValues(_)
ParsedValues(slices) ==
    IF slices = <<>> THEN <<>>
    ELSE (IF JsonLoads(Head(slices)).ok
          THEN <<JsonLoads(Head(slices)).val>> ELSE <<>>)
         \o ParsedValues(Tail(slices))

LineMessages(line) ==
    IF Strip(line) = <<>> THEN <<>>
    ELSE ParsedValues(JsonObjects(Strip(line)))

RECURSIVE MessagesOf(_)
MessagesOf(lines) ==
    IF lines = <<>> THEN <<>>
    ELSE LineMessages(Head(lines)) \o MessagesOf(Tail(lines))

\* text holds the word "error" in some mix of upper and lower case.
HasErrorAnyCase(text) ==
    \E i \in 1..(Len(text) - 4) :
        /\ text[i] \in {"e", "E"}
        /\ text[i + 1] \in {"r", "R"}
        /\ text[i + 2] \in {"r", "R"}
        /\ text[i + 3] \in {"o", "O"}
        /\ text[i + 4] \in {"r", "R"}

\* receive_messages has ended after reading stdout to its end: it was
\* connected, the consumer did not close it, and no slice was raised.
StdoutExhausted ==
    /\ recvPc = "done" /\ ~cancelled
    /\ outcome.kind \notin {"CLIConnectionError", "CLIJSONDecodeError"}

\* C6 (the accumulated stderr text is "\n".join(stderr_lines), line 253):
\* when stdout was read to its end without a decode error, the
\* subprocess ended with a non-zero status and the stderr text holds
\* "error" in any letter case, receive_messages ends with a ProcessError
\* carrying that status and the whole stderr text, every message of stdout
\* having been yielded before.
C6_ProcessErrorAfterStdout ==
    (/\ StdoutExhausted
     /\ exitCode # 0
     /\ HasErrorAnyCase(JoinLines(stderr_lines))) =>
        /\ outcome = ProcessError(exitCode, JoinLines(stderr_lines))
        /\ stdoutPipe = <<>> /\ stderrPipe = <<>>
        /\ yielded = MessagesOf(stdoutRead)

\* Two messages were yielded, the subprocess ended with status 1 and
\* "Error" on stderr, and the ProcessError was raised last.
C6_Witness ==
    /\ recvPc = "done"
    /\ Len(yielded) = 2
    /\ outcome = ProcessError(1, <<"E", "r", "r", "o", "r">>)

\* C7: with an empty stderr text receive_messages never ends with a
\* ProcessError, whatever the exit status: after stdout was read to its
\* end it ends cleanly.
C7_NoStderrNoProcessError ==
    (recvPc = "done" /\ JoinLines(stderr_lines) = <<>>) =>
        /\ outcome.kind # "ProcessError"
        /\ StdoutExhausted => outcome = EndOk

\* The subprocess ended with status 1 and wrote nothing to stderr: the
\* stream ended cleanly.
C7_Witness ==
    /\ recvPc = "done" /\ reaped /\ exitCode = 1
    /\ stderr_lines = <<>>
    /\ outcome = EndOk

\* C8 as claimed: once the consumer has closed the generator, it ends at
\* any point of the subprocess's life: until it has, the generator or its
\* read_stderr task can always take a next step.
C8_CloseReleasesTasks ==
    (cancelled /\ recvPc # "done") =>
        ENABLED (RecvJoinReturn \/ DrainRead \/ DrainEOF)

\* C9 as claimed: receive_messages ends with the exit status known, after
\* stdout's end and after the consumer's close alike.
C9_ExitKnownOnBothPaths ==
    (recvPc = "done" /\ outcome.kind \in {"ok", "ProcessError", "closed"}) =>
        ~ReturncodeIsNone

\* C9 as amended: after stdout's end receive_messages waits for the exit,
\* so the exit status is known when it ends; after the consumer's close it
\* ends through the `return` of line 242, without raising and without
\* waiting for the exit.
C9_ExitKnownAfterStdoutEnd ==
    /\ StdoutExhausted => ~ReturncodeIsNone
    /\ (recvPc = "done" /\ cancelled) => outcome = EndClosed

\* Stdout was read to its end, a message was yielded, and the stream ended
\* with the status known.
C9_Witness ==
    /\ StdoutExhausted /\ outcome = EndOk
    /\ yielded # <<>> /\ reaped

\* C10 as claimed: a disconnect() that found a process handle ends with
\* the handle and both streams cleared.
C10_DisconnectClearsHandles ==
    discPc = "done" =>
        ~process /\ ~stdout_stream /\ ~stderr_stream

\* --------------------------------------------------- claims on the calls

\* C11 as claimed: no disconnect() call ends with an error, and a
\* disconnect() call that follows a disconnect() call sends no signal and
\* changes nothing of the transport.
C11_SecondDisconnectNoop ==
    [][/\ discPc' = "done" => discOutcome' = "ok"
       /\ discPc = "done" => UNCHANGED <<transportVars, discVars>>]_vars

\* C12 as claimed: however the connect() calls of several tasks interleave,
\* with no disconnect() between them, at most one subprocess is spawned and
\* no spawned subprocess has its handle overwritten.
C12_OneSubprocessPerTransport ==
    discPc = "idle" => (spawned <= 1 /\ orphans = 0)

\* receive_messages is started: its first step.
RecvStarted == recvPc = "idle" /\ recvPc' # "idle"
FailsNotConnected ==
    recvPc' = "done" /\ outcome' = CLIConnectionError /\ yielded' = <<>>

\* C13 as claimed: receive_messages started while is_connected() is false
\* fails with a connection error and yields no message.
C13_NotConnectedFails ==
    [][(RecvStarted /\ ~is_connected) => FailsNotConnected]_vars

\* C13 as amended: receive_messages started while the process handle or the
\* stdout stream is missing fails with a connection error and yields no
\* message; started while they exist it goes on to read stdout, whether or
\* not the exit status is already known.
C13_NoHandleFails ==
    [][RecvStarted =>
          IF ~process \/ ~stdout_stream THEN FailsNotConnected
          ELSE recvPc' = "read" /\ outcome' = NoOutcome]_vars

\* receive_messages was started after a disconnect() had cleared the
\* handle, and failed with the connection error.
C13_Witness ==
    /\ discPc = "done" /\ ~process
    /\ recvPc = "done" /\ outcome = CLIConnectionError /\ yielded = <<>>

\* ------------------------------------------------- claims on the command

\* connect() has built its command.
CommandBuilt == cmd # <<>>

\* The tokens of `part` are in `whole`, in that order.
RECURSIVE InOrder(_, _)
InOrder(part, whole) ==
    IF part = <<>> THEN TRUE
    ELSE IF whole = <<>> THEN FALSE
    ELSE IF Head(part) = Head(whole) THEN InOrder(Tail(part), Tail(whole))
    ELSE InOrder(part, Tail(whole))

\* Where `token` stands in the command, 0 when it is not there.
Position(token) ==
    IF \E i \in 1..Len(cmd) : cmd[i] = token
    THEN CHOOSE i \in 1..Len(cmd) :
            cmd[i] = token /\ \A j \in 1..(i - 1) : cmd[j] # token
    ELSE 0

\* The flags of `order` that are in the command stand there once each and
\* in the order they have in `order`.
FlagsFollow(order) ==
    LET flags == {order[i] : i \in 1..Len(order)}
        tokens == {cmd[i] : i \in 1..Len(cmd)}
    IN SelectSeq(cmd, LAMBDA x : x \in flags)
         = SelectSeq(order, LAMBDA f : f \in tokens)

\* The command ends with the print flag and the prompt.
PromptLast ==
    /\ Len(cmd) >= 2
    /\ cmd[Len(cmd) - 1] = FlagPrint /\ cmd[Len(cmd)] = prompt

\* model = "fast", max_turns = 3 and nothing else set.
Fast == <<"f", "a", "s", "t">>
FastThreeTurns ==
    [NoOptions EXCEPT !.model = JStr(Fast), !.max_turns = JNum(3)]

\* C14 as claimed: with model "fast" and 3 turns the command holds, in this
\* order, the streaming-output flags, --model fast, --max-turns 3, and
\* --print with the prompt as its last two tokens.
C14_ModelBeforeTurns ==
    (CommandBuilt /\ options = FastThreeTurns) =>
        /\ InOrder(<<FlagOutputFormat, StreamJson, FlagVerbose,
                     FlagModel, Fast, FlagMaxTurns, <<"3">>,
                     FlagPrint, prompt>>, cmd)
        /\ PromptLast

\* C14 as amended: with model "fast" and 3 turns the command is the CLI
\* path, the streaming-output flags, --max-turns 3, --model fast, and
\* --print with the prompt.
C14_TurnsBeforeModel ==
    (CommandBuilt /\ options = FastThreeTurns) =>
        cmd = <<cli_path, FlagOutputFormat, StreamJson, FlagVerbose,
                FlagMaxTurns, <<"3">>, FlagModel, Fast, FlagPrint, prompt>>

\* connect() has built the command for model "fast" and 3 turns.
C14_Witness ==
    /\ connPc = "spawning" /\ options = FastThreeTurns
    /\ Len(cmd) = 10 /\ cmd[5] = FlagMaxTurns /\ cmd[7] = FlagModel

\* C15 as claimed: the flags in the command stand in the order system
\* prompt, append system prompt, allowed tools, disallowed tools, turn
\* limit, model, permission-prompt tool, permission mode, continue, resume,
\* MCP configuration, and --print with the prompt come last.
C15_ClaimedFlagOrder ==
    CommandBuilt =>
        /\ FlagsFollow(<<FlagSystemPrompt, FlagAppendSystemPrompt,
                         FlagAllowedTools, FlagDisallowedTools, FlagMaxTurns,
                         FlagModel, FlagPermissionPromptTool,
                         FlagPermissionMode, FlagContinue, FlagResume,
                         FlagMcpConfig>>)
        /\ PromptLast

\* C15 as amended: the flags in the command stand in the order system
\* prompt, append system prompt, allowed tools, turn limit, disallowed
\* tools, model, permission-prompt tool, permission mode, continue, resume,
\* MCP configuration, after the streaming-output flags, and --print with
\* the prompt come last.
C15_CodeFlagOrder ==
    CommandBuilt =>
        /\ FlagsFollow(<<FlagOutputFormat, FlagVerbose,
                         FlagSystemPrompt, FlagAppendSystemPrompt,
                         FlagAllowedTools, FlagMaxTurns, FlagDisallowedTools,
                         FlagModel, FlagPermissionPromptTool,
                         FlagPermissionMode, FlagContinue, FlagResume,
                         FlagMcpConfig, FlagPrint>>)
        /\ SubSeq(cmd, 1, 4)
             = <<cli_path, FlagOutputFormat, StreamJson, FlagVerbose>>
        /\ PromptLast

\* A command was built with every option set: it holds all eleven flags,
\* the turn limit's before the disallowed tools'.
C15_Witness ==
    /\ CommandBuilt
    /\ \A f \in {FlagSystemPrompt, FlagAppendSystemPrompt, FlagAllowedTools,
                 FlagMaxTurns, FlagDisallowedTools, FlagModel,
                 FlagPermissionPromptTool, FlagPermissionMode, FlagContinue,
                 FlagResume, FlagMcpConfig} : Position(f) > 0
    /\ Position(FlagMaxTurns) < Position(FlagDisallowedTools)

\* ------------------------------------------ claims on the message stream

IsPrefix(a, b) == Len(a) <= Len(b) /\ a = SubSeq(b, 1, Len(a))

\* C16: the messages yielded are, at every moment, the slices parsed so
\* far, in the order of the lines read and, within a line, of the closing
\* braces: a prefix of the messages of the lines read; all of them once
\* stdout has been read to its end; and when a slice is raised as a decode
\* error, the messages of the earlier lines and of the slices before it.
C16_MessagesInStreamOrder ==
    /\ IsPrefix(yielded, MessagesOf(stdoutRead))
    /\ StdoutExhausted => yielded = MessagesOf(stdoutRead)
    /\ outcome.kind = "CLIJSONDecodeError" =>
          LET n == Len(stdoutRead)
              slices == JsonObjects(Strip(stdoutRead[n]))
              bad == FirstBad(slices)
          IN /\ bad > 0 /\ outcome.text = slices[bad]
             /\ yielded = MessagesOf(SubSeq(stdoutRead, 1, n - 1))
                            \o ParsedValues(SubSeq(slices, 1, bad - 1))

\* Two lines were read, {}{"a":1} and {}, and gave three messages in the
\* order of the stream.
C16_Witness ==
    /\ recvPc = "done"
    /\ stdoutRead = << <<LB, RB, LB, QT, "a", QT, CL, "1", RB>>,
                       <<LB, RB, NL>> >>
    /\ yielded = <<JObj(<<>>), JObj(<< <<<<"a">>, JNum(1)>> >>), JObj(<<>>)>>
\* C17: from the moment receive_messages has left the task group to read
\* the stderr buffer (lines 251-259), read_stderr is no longer running and
\* the buffer does not change.
C17_BufferReadAfterDrain ==
    [][(recvPc = "wait" \/ recvPc = "done") =>
          (drainPc # "running" /\ drainPc' # "running"
           /\ stderr_lines' = stderr_lines)]_vars

\* read_stderr appended two chunks and ended; the buffer was then read
\* and a ProcessError raised with its text.
C17_Witness ==
    /\ recvPc = "done" /\ drainPc = "done"
    /\ Len(stderr_lines) = 2
    /\ outcome.kind = "ProcessError"
    /\ outcome.stderr = JoinLines(stderr_lines)

\* ---------------------------------------------- claims on the signals

\* C18: a signal is sent only while the exit status is unknown; terminate
\* is sent at the start of a disconnect() call; kill is sent only in a call
\* that sent terminate just before and whose bounded wait has not seen the
\* process exit.
C18_KillOnlyAfterTerminateTimedOut ==
    [][(signals' # signals) =>
          (/\ ReturncodeIsNone /\ ~WaitReturns
           /\ \/ /\ signals' = Append(signals, "terminate")
                 /\ (discPc = "idle" \/ discPc = "done")
              \/ /\ signals' = Append(signals, "kill")
                 /\ discPc = "term_wait"
                 /\ signals # <<>> /\ signals[Len(signals)] = "terminate")]_vars

\* A disconnect() sent terminate, its wait timed out, it sent kill, waited
\* and cleared the handle.
C18_Witness ==
    /\ discPc = "done" /\ discOutcome = "ok" /\ ~process
    /\ signals = <<"terminate", "kill">>

\* ------------------------------------------ claims on the candidate slices

\* Where a reader of the line stands after each character: how many braces
\* are open (closing braces counted too when none is open) and whether it
\* is in plain text, in a string, or after a backslash in a string.
RECURSIVE Walk(_, _, _)
Walk(line, i, at) ==
    IF i > Len(line) THEN <<>>
    ELSE LET c == line[i]
             next ==
                 CASE at.mode = "escape" -> [at EXCEPT !.mode = "string"]
                   [] at.mode = "string" ->
                        IF c = BS THEN [at EXCEPT !.mode = "escape"]
                        ELSE IF c = QT THEN [at EXCEPT !.mode = "text"]
                        ELSE at
                   [] OTHER ->
                        IF c = QT THEN [at EXCEPT !.mode = "string"]
                        ELSE IF c = LB THEN [at EXCEPT !.depth = @ + 1]
                        ELSE IF c = RB THEN [at EXCEPT !.depth = @ - 1]
                        ELSE at
         IN <<next>> \o Walk(line, i + 1, next)

\* The spans of the line: from a "{" met in plain text with no brace open
\* to the "}" that closes it.
SpansOf(line) ==
    LET w == Walk(line, 1, [depth |-> 0, mode |-> "text"])
        opens == {a \in 1..Len(line) :
                     /\ line[a] = LB /\ w[a].depth = 1 /\ w[a].mode = "text"
                     /\ (a > 1 => w[a - 1].mode = "text")}
        closes(a) == {b \in (a + 1)..Len(line) :
                         /\ w[b].depth = 0
                         /\ \A k \in a..(b - 1) : w[k].depth >= 1}
    IN UNION {{<<a, b>> : b \in closes(a)} : a \in opens}

\* The texts of spans, from left to right.
RECURSIVE SpanTexts(_, _)
SpanTexts(line, spans) ==
    IF spans = {} THEN <<>>
    ELSE LET first == CHOOSE s \in spans : \A u \in spans : s[1] <= u[1]
         IN <<SubSeq(line, first[1], first[2])>>
            \o SpanTexts(line, spans \ {first})

\* C19: the candidate slices of a trimmed non-empty line are its spans,
\* from left to right, or the whole trimmed line when it has no span; a
\* slice raised as a decode error is one of them.
C19_CandidatesAreClosedSpans ==
    (OneLineDone /\ Strip(TheLine) # <<>>) =>
        LET line_str == Strip(TheLine)
            spans == SpansOf(line_str)
            candidates == IF spans = {} THEN <<line_str>>
                          ELSE SpanTexts(line_str, spans)
        IN /\ JsonObjects(line_str) = candidates
           /\ outcome.kind = "CLIJSONDecodeError" =>
                 \E i \in 1..Len(candidates) : outcome.text = candidates[i]

\* {{} was read: its second brace opens at depth 1 and the first is never
\* closed, so the line has no span and was handed to the parser whole.
C19_Witness ==
    /\ OneLineDone
    /\ TheLine = <<LB, LB, RB>>
    /\ outcome = SDKJSONDecodeError(<<LB, LB, RB>>)

\* C20: a disconnect() that runs while receive_messages is being iterated
\* leaves the iteration to end as it does otherwise (cleanly, with a JSON
\* decode error or with ProcessError), never with a failure that comes
\* from the cleared handle.
C20_IterationSurvivesDisconnect ==
    (recvPc = "done" /\ drainPc # "none") =>
        outcome.kind \in {"ok", "closed", "CLIJSONDecodeError",
                          "ProcessError"}

====
